---------------------------- MODULE Spec2Model ----------------------------
(***************************************************************************)
(* Model of the OpenMPOpt pass of Polygeist                                *)
(* (lib/polygeist/Passes/OpenMPOpt.cpp): the three rewrite patterns        *)
(* CombineParallel, ParallelForInterchange and ParallelIfInterchange on a  *)
(* block/region IR, and the execution of a rewritten parallel region by a  *)
(* team of workers.                                                        *)
(*                                                                         *)
(* The IR is an arena: ir.ops maps the id of every live operation to its   *)
(* record, ir.blocks maps the id of every live block to its operation      *)
(* list, ir.next is the next fresh id (ids are never reused, as addresses  *)
(* of live objects are never shared).  A value is <<"r", o>> (the result   *)
(* of operation o) or <<"a", b>> (the argument of block b).  A region is   *)
(* the sequence of the ids of its blocks.                                  *)
(***************************************************************************)
EXTENDS Integers, Sequences, FiniteSets, TLC

VARIABLES ir, last, phase, prog, pc, drv

vars == <<ir, last, phase, prog, pc, drv>>

-----------------------------------------------------------------------------
(* Bounds of the model *)

\* number of operations in the function body besides the return (a loop, a
\* conditional or an outer parallel counts for two)
MaxTop == 3
\* size of the team executing a parallel region
NumWorkers == 2
\* trip count of every scf.for
Trip == 2
\* number of values of the input that have a user
MaxUses == 1

-----------------------------------------------------------------------------
(* Sequences *)

Range(s) == {s[i] : i \in 1..Len(s)}

PosIn(s, x) == CHOOSE i \in 1..Len(s) : s[i] = x

InsertAt(s, i, x) == SubSeq(s, 1, i - 1) \o <<x>> \o SubSeq(s, i, Len(s))

Without(s, x) == SelectSeq(s, LAMBDA y : y # x)

Restrict(f, S) == [x \in S |-> f[x]]

-----------------------------------------------------------------------------
(* The IR: structure queries *)

Terminators == {"omp.terminator", "scf.yield", "func.return"}

IsParallel(t, o) == t.ops[o].name = "omp.parallel"

\* Operation::getBlock (0: the function, which is in no block)
BlockOf(t, o) == t.ops[o].block

HasBlock(t, o) == t.ops[o].block # 0

BlocksOf(rec) == UNION {Range(rec.regions[i]) : i \in DOMAIN rec.regions}

\* Block::getParentOp
BlockParentOp(t, b) == t.blocks[b].owner

\* Operation::getParentOp
ParentOp(t, o) == BlockParentOp(t, BlockOf(t, o))

\* Operation::isAncestor: an operation is its own ancestor
RECURSIVE IsAncestor(_, _, _)
IsAncestor(t, a, o) ==
    \/ a = o
    \/ HasBlock(t, o) /\ IsAncestor(t, a, ParentOp(t, o))

IsProperAncestor(t, a, o) == a # o /\ IsAncestor(t, a, o)

\* Block::front, Block::getTerminator, Operation::getPrevNode
Front(t, b) == t.blocks[b].ops[1]

Terminator(t, b) == t.blocks[b].ops[Len(t.blocks[b].ops)]

PrevNode(t, o) ==
    LET s == t.blocks[BlockOf(t, o)].ops IN s[PosIn(s, o) - 1]

\* Value::getUsers for the result of o
Users(t, o) == {u \in DOMAIN t.ops : <<"r", o>> \in t.ops[u].operands}

\* the operations nested below o, o excluded
Descendants(t, o) ==
    IF BlocksOf(t.ops[o]) = {} THEN {}
    ELSE {d \in DOMAIN t.ops : IsProperAncestor(t, o, d)}

\* the blocks nested below o
DescBlocks(t, o) ==
    IF BlocksOf(t.ops[o]) = {} THEN {}
    ELSE {b \in DOMAIN t.blocks : IsAncestor(t, o, BlockParentOp(t, b))}

\* ParallelOp::getRegion().front()
RegionBlock(t, o) == t.ops[o].regions[1][1]

-----------------------------------------------------------------------------
(* The IR: the rewriter's primitives.  Each keeps the back-references      *)
(* (an operation's block, a block's owner) in step with the lists.         *)

\* the operations of s now belong to block b
Adopt(ops, s, b) ==
    [o \in DOMAIN ops |-> IF o \in Range(s) THEN [ops[o] EXCEPT !.block = b]
                          ELSE ops[o]]

\* unlink o from its block
Unlink(t, o) ==
    [t EXCEPT !.blocks[BlockOf(t, o)].ops = Without(@, o),
              !.ops[o].block = 0]

\* Operation::moveBefore
MoveBefore(t, o, target) ==
    LET b == BlockOf(t, target)
        s == Without(t.blocks[b].ops, o)
        from == BlockOf(t, o)
    IN [t EXCEPT !.blocks = [[@ EXCEPT ![from].ops = Without(@, o)]
                                EXCEPT ![b].ops = InsertAt(s, PosIn(s, target), o)],
                 !.ops[o].block = b]

\* OpBuilder::create of an operation without regions at index i of block b;
\* the new operation's id is t.next
CreateAt(t, rec, b, i) ==
    [ops |-> (t.next :> [rec EXCEPT !.block = b]) @@ t.ops,
     blocks |-> [t.blocks EXCEPT ![b].ops = InsertAt(@, i, t.next)],
     next |-> t.next + 1]

\* PatternRewriter::eraseOp: o and everything nested in it goes
EraseOp(t, o) ==
    LET gone == Descendants(t, o) \cup {o}
        goneB == DescBlocks(t, o)
        b == BlockOf(t, o)
    IN [ops |-> Restrict(t.ops, DOMAIN t.ops \ gone),
        blocks |-> Restrict([t.blocks EXCEPT ![b].ops = Without(@, o)],
                            DOMAIN t.blocks \ goneB),
        next |-> t.next]

\* Value::replaceAllUsesWith for the result of old
ReplaceAllUses(t, old, new) ==
    [t EXCEPT !.ops =
        [u \in DOMAIN t.ops |->
            [t.ops[u] EXCEPT !.operands =
                IF <<"r", old>> \in @
                THEN (@ \ {<<"r", old>>}) \cup {<<"r", new>>} ELSE @]]]

\* PatternRewriter::replaceOp
ReplaceOp(t, old, new) == EraseOp(ReplaceAllUses(t, old, new), old)

\* the region list of the owner of block b without b
Disown(t, b) ==
    [t.ops EXCEPT ![BlockParentOp(t, b)].regions =
        [i \in DOMAIN @ |-> Without(@[i], b)]]

\* PatternRewriter::mergeBlocks: the operations of source go to the end of
\* dest and source is erased from its region
MergeBlocks(t, source, dest) ==
    LET moved == t.blocks[source].ops
    IN [ops |-> Adopt(Disown(t, source), moved, dest),
        blocks |-> Restrict([t.blocks EXCEPT ![dest].ops = @ \o moved],
                            DOMAIN t.blocks \ {source}),
        next |-> t.next]

\* a variant of MergeBlockBefore that leaves the emptied source block in its
\* region
MergeBlockBeforeKeepSource(t, source, op) ==
    LET moved == t.blocks[source].ops
        dest == BlockOf(t, op)
        s == t.blocks[dest].ops
        i == PosIn(s, op)
    IN [ops |-> Adopt(t.ops, moved, dest),
        blocks |-> [t.blocks EXCEPT
                       ![dest].ops = SubSeq(s, 1, i - 1) \o moved \o SubSeq(s, i, Len(s)),
                       ![source].ops = <<>>],
        next |-> t.next]

\* PatternRewriter::mergeBlockBefore: the operations of source go before
\* operation op and source is erased from its region
MergeBlockBefore(t, source, op) ==
    LET moved == t.blocks[source].ops
        dest == BlockOf(t, op)
        s == t.blocks[dest].ops
        i == PosIn(s, op)
    IN [ops |-> Adopt(Disown(t, source), moved, dest),
        blocks |-> Restrict([t.blocks EXCEPT ![dest].ops =
                                SubSeq(s, 1, i - 1) \o moved \o SubSeq(s, i, Len(s))],
                            DOMAIN t.blocks \ {source}),
        next |-> t.next]

\* PatternRewriter::splitBlock: the operations of b from index i on go to a
\* new block (id t.next) placed after b in its region
SplitBlock(t, b, i) ==
    LET owner == BlockParentOp(t, b)
        s == t.blocks[b].ops
        moved == SubSeq(s, i, Len(s))
        after(r) == LET k == PosIn(r, b)
                    IN SubSeq(r, 1, k) \o <<t.next>> \o SubSeq(r, k + 1, Len(r))
    IN [ops |-> Adopt([t.ops EXCEPT ![owner].regions =
                          [j \in DOMAIN @ |->
                              IF b \in Range(@[j]) THEN after(@[j]) ELSE @[j]]],
                      moved, t.next),
        blocks |-> (t.next :> [ops |-> moved, arg |-> FALSE, owner |-> owner])
                   @@ [t.blocks EXCEPT ![b].ops = SubSeq(s, 1, i - 1)],
        next |-> t.next + 1]

\* OpBuilder::clone: a deep copy of o placed at index i of block b.  The copy
\* of o gets id t.next; values defined inside o are remapped to the copies.
CloneAt(t, o, b, i) ==
    LET inner == Descendants(t, o)
        innerB == DescBlocks(t, o)
        newOp(x) == IF x = o THEN t.next
                    ELSE t.next + 1 + Cardinality({y \in inner : y < x})
        newBlock(c) == t.next + 1 + Cardinality(inner)
                       + Cardinality({y \in innerB : y < c})
        newVal(v) == IF v[1] = "r" /\ v[2] \in inner \cup {o} THEN <<"r", newOp(v[2])>>
                     ELSE IF v[1] = "a" /\ v[2] \in innerB THEN <<"a", newBlock(v[2])>>
                     ELSE v
        copy(x) == [t.ops[x] EXCEPT
                      !.operands = {newVal(v) : v \in @},
                      !.regions = [j \in DOMAIN @ |->
                                      [k \in DOMAIN @[j] |-> newBlock(@[j][k])]],
                      !.block = IF x = o THEN b ELSE newBlock(@)]
        copyB(c) == [t.blocks[c] EXCEPT
                       !.ops = [k \in DOMAIN @ |-> newOp(@[k])],
                       !.owner = newOp(@)]
        all == inner \cup {o}
        opsNew == [n \in {newOp(x) : x \in all} |->
                      copy(CHOOSE x \in all : newOp(x) = n)]
        blocksNew == [n \in {newBlock(c) : c \in innerB} |->
                         copyB(CHOOSE c \in innerB : newBlock(c) = n)]
    IN [ops |-> opsNew @@ t.ops,
        blocks |-> blocksNew @@ [t.blocks EXCEPT ![b].ops = InsertAt(@, i, t.next)],
        next |-> t.next + Cardinality(all) + Cardinality(innerB)]

-----------------------------------------------------------------------------
(* The pass *)

\* the record of an operation
Rec(name, nres, iface, effects, recursive, regions) ==
    [name |-> name, operands |-> {}, nres |-> nres, iface |-> iface,
     effects |-> effects, recursive |-> recursive, regions |-> regions,
     block |-> 0]

BarrierRec == Rec("omp.barrier", 0, FALSE, {}, FALSE, <<>>)

\* isReadOnly: with the HasRecursiveSideEffects trait every nested operation
\* must be read-only; then the operation must implement
\* MemoryEffectOpInterface and declare nothing but Read effects
RECURSIVE isReadOnly(_, _)
isReadOnly(t, o) ==
    LET op == t.ops[o]
        nested == UNION {Range(t.blocks[b].ops) : b \in BlocksOf(op)}
    IN IF op.recursive /\ \E n \in nested : ~isReadOnly(t, n) THEN FALSE
       ELSE IF op.iface THEN \A e \in op.effects : e = "read"
       ELSE FALSE

\* what a pattern returns: the tree, success or failure, and a record of
\* what it did (merged: the parallel merged into, or 0; moved: the relocated
\* operations with their clones, in the order they were relocated; host: the
\* loop or conditional interchanged with, or 0)
Outcome(t, res, merged, moved, host) ==
    [ir |-> t, res |-> res, merged |-> merged, moved |-> moved, host |-> host]

Failure(t) == Outcome(t, "failure", 0, <<>>, 0)

\* CombineParallel, lines 79-88: is there a parallel in the function that is
\* not contained in p (p contains itself)
Noncontained(t, p) ==
    \E other \in DOMAIN t.ops : IsParallel(t, other) /\ ~IsAncestor(t, p, other)

\* a variant of Eligible that does not look at the effects of prevOp
EligibleAnyEffects(t, p, prevOp) ==
    t.ops[prevOp].nres > 0 => \A user \in Users(t, prevOp) : IsAncestor(t, p, user)

\* CombineParallel, lines 100-105: prevOp may move into p
Eligible(t, p, prevOp) ==
    /\ isReadOnly(t, prevOp)
    /\ t.ops[prevOp].nres > 0 => \A user \in Users(t, prevOp) : IsAncestor(t, p, user)

\* a variant of Relocate that leaves the original operation in place
RelocateKeepOriginal(t, p, prevOp) ==
    ReplaceAllUses(CloneAt(t, prevOp, RegionBlock(t, p), 1), prevOp, t.next)

\* a variant of Relocate that puts the clone before the terminator of p's
\* block
RelocateAtEnd(t, p, prevOp) ==
    ReplaceOp(CloneAt(t, prevOp, RegionBlock(t, p),
                      Len(t.blocks[RegionBlock(t, p)].ops)),
              prevOp, t.next)

\* CombineParallel, lines 108-110: clone prevOp to the start of p's block and
\* replace prevOp by the clone
Relocate(t, p, prevOp) ==
    ReplaceOp(CloneAt(t, prevOp, RegionBlock(t, p), 1), prevOp, t.next)

\* a variant of Merge that keeps the terminator of prevParallel
MergeKeepTerminator(t, prevParallel, nextParallel) ==
    LET qb == RegionBlock(t, prevParallel)
        t1 == CreateAt(t, BarrierRec, qb, Len(t.blocks[qb].ops) + 1)
        t3 == MergeBlocks(t1, RegionBlock(t1, nextParallel), qb)
    IN EraseOp(t3, nextParallel)

\* a variant of Merge that creates no barrier
MergeNoBarrier(t, prevParallel, nextParallel) ==
    LET qb == RegionBlock(t, prevParallel)
        t2 == EraseOp(t, Terminator(t, qb))
        t3 == MergeBlocks(t2, RegionBlock(t2, nextParallel), qb)
    IN EraseOp(t3, nextParallel)

\* CombineParallel, lines 120-125: prevParallel's terminator becomes a
\* barrier (created at the end of the block), nextParallel's block is
\* appended and nextParallel is erased
Merge(t, prevParallel, nextParallel) ==
    LET qb == RegionBlock(t, prevParallel)
        term == Terminator(t, qb)
        t1 == CreateAt(t, BarrierRec, qb, Len(t.blocks[qb].ops) + 1)
        t2 == ReplaceOp(t1, term, t.next)
        t3 == MergeBlocks(t2, RegionBlock(t2, nextParallel), qb)
    IN EraseOp(t3, nextParallel)

\* a variant of CombineScan that reports failure when it stops at an
\* operation that may not move
RECURSIVE CombineScanStrict(_, _, _, _)
CombineScanStrict(t, p, prevOp, moved) ==
    IF IsParallel(t, prevOp)
    THEN Outcome(Merge(t, prevOp, p), "success", prevOp, moved, 0)
    ELSE IF Eligible(t, p, prevOp)
    THEN LET parent == BlockOf(t, p)
             prevIter == IF prevOp = Front(t, parent) THEN 0
                         ELSE PrevNode(t, prevOp)
             t1 == Relocate(t, p, prevOp)
             moved1 == Append(moved, [orig |-> prevOp, clone |-> t.next])
         IN IF prevIter = 0
            THEN Outcome(t1, "success", 0, moved1, 0)
            ELSE CombineScanStrict(t1, p, prevIter, moved1)
    ELSE Outcome(t, "failure", 0, moved, 0)

\* CombineParallel, lines 95-118: the backward scan from prevOp
RECURSIVE CombineScan(_, _, _, _)
CombineScan(t, p, prevOp, moved) ==
    IF IsParallel(t, prevOp)
    THEN Outcome(Merge(t, prevOp, p), "success", prevOp, moved, 0)
    ELSE IF Eligible(t, p, prevOp)
    THEN LET parent == BlockOf(t, p)
             prevIter == IF prevOp = Front(t, parent) THEN 0
                         ELSE PrevNode(t, prevOp)
             t1 == Relocate(t, p, prevOp)
             moved1 == Append(moved, [orig |-> prevOp, clone |-> t.next])
         IN IF prevIter = 0
            THEN Outcome(t1, "success", 0, moved1, 0)
            ELSE CombineScan(t1, p, prevIter, moved1)
    ELSE Outcome(t, IF moved # <<>> THEN "success" ELSE "failure",
                 0, moved, 0)

\* a variant of CombineParallel without the search for another parallel
CombineParallelNoGuard(t, nextParallel) ==
    LET parent == BlockOf(t, nextParallel)
    IN IF nextParallel = Front(t, parent) THEN Failure(t)
       ELSE CombineScan(t, nextParallel, PrevNode(t, nextParallel), <<>>)

\* CombineParallel::matchAndRewrite
CombineParallel(t, nextParallel) ==
    LET parent == BlockOf(t, nextParallel)
    IN IF nextParallel = Front(t, parent) THEN Failure(t)
       ELSE IF ~Noncontained(t, nextParallel) THEN Failure(t)
       ELSE CombineScan(t, nextParallel, PrevNode(t, nextParallel), <<>>)

\* a variant of Interchange that does not erase the terminator it cloned
InterchangeKeepYield(t, nextParallel, prev, body, withBarrier) ==
    LET t1 == MoveBefore(t, nextParallel, prev)
        pb == RegionBlock(t1, nextParallel)
        t2 == SplitBlock(t1, pb, 1)
        t3 == MergeBlockBefore(t2, t1.next, Front(t2, body))
        t4 == IF withBarrier
              THEN CreateAt(t3, BarrierRec, body, Len(t3.blocks[body].ops))
              ELSE t3
        t5 == CloneAt(t4, Terminator(t1, pb), pb, Len(t4.blocks[pb].ops) + 1)
    IN MoveBefore(t5, prev, t4.next)

\* lines 143-154 and 172-181, shared by the two interchanges: nextParallel
\* moves before prev, its whole block is split off and inlined before the
\* first operation of body, a barrier goes before body's terminator when
\* withBarrier, the terminator of nextParallel is cloned into its emptied
\* block and erased, and prev moves before the clone
Interchange(t, nextParallel, prev, body, withBarrier) ==
    LET t1 == MoveBefore(t, nextParallel, prev)
        pb == RegionBlock(t1, nextParallel)
        yield == Terminator(t1, pb)
        contents == t1.next
        t2 == SplitBlock(t1, pb, 1)
        t3 == MergeBlockBefore(t2, contents, Front(t2, body))
        t4 == IF withBarrier
              THEN CreateAt(t3, BarrierRec, body, Len(t3.blocks[body].ops))
              ELSE t3
        newYield == t4.next
        t5 == CloneAt(t4, yield, pb, Len(t4.blocks[pb].ops) + 1)
        t6 == EraseOp(t5, yield)
    IN MoveBefore(t6, prev, newYield)

\* a variant of ParallelForInterchange that creates no barrier
ParallelForInterchangeNoBarrier(t, nextParallel) ==
    LET parent == BlockOf(t, nextParallel)
        prevFor == ParentOp(t, nextParallel)
    IN IF Len(t.blocks[parent].ops) # 2 THEN Failure(t)
       ELSE IF t.ops[prevFor].name # "scf.for" \/ t.ops[prevFor].nres # 0
       THEN Failure(t)
       ELSE Outcome(Interchange(t, nextParallel, prevFor,
                                RegionBlock(t, prevFor), FALSE),
                    "success", 0, <<>>, prevFor)

\* a variant of ParallelForInterchange that does not look at the results of
\* the loop
ParallelForInterchangeAnyResults(t, nextParallel) ==
    LET parent == BlockOf(t, nextParallel)
        prevFor == ParentOp(t, nextParallel)
    IN IF Len(t.blocks[parent].ops) # 2 THEN Failure(t)
       ELSE IF t.ops[prevFor].name # "scf.for" THEN Failure(t)
       ELSE Outcome(Interchange(t, nextParallel, prevFor,
                                RegionBlock(t, prevFor), TRUE),
                    "success", 0, <<>>, prevFor)

\* a variant of ParallelForInterchange that does not count the operations of
\* the block of nextParallel
ParallelForInterchangeAnySize(t, nextParallel) ==
    LET prevFor == ParentOp(t, nextParallel)
    IN IF t.ops[prevFor].name # "scf.for" \/ t.ops[prevFor].nres # 0
       THEN Failure(t)
       ELSE Outcome(Interchange(t, nextParallel, prevFor,
                                RegionBlock(t, prevFor), TRUE),
                    "success", 0, <<>>, prevFor)

\* ParallelForInterchange::matchAndRewrite
ParallelForInterchange(t, nextParallel) ==
    LET parent == BlockOf(t, nextParallel)
        prevFor == ParentOp(t, nextParallel)
    IN IF Len(t.blocks[parent].ops) # 2 THEN Failure(t)
       ELSE IF t.ops[prevFor].name # "scf.for" \/ t.ops[prevFor].nres # 0
       THEN Failure(t)
       ELSE Outcome(Interchange(t, nextParallel, prevFor,
                                RegionBlock(t, prevFor), TRUE),
                    "success", 0, <<>>, prevFor)

\* a variant of ParallelIfInterchange that reports success, having changed
\* nothing, on a conditional with results
ParallelIfInterchangeIdle(t, nextParallel) ==
    LET parent == BlockOf(t, nextParallel)
        prevIf == ParentOp(t, nextParallel)
    IN IF Len(t.blocks[parent].ops) # 2 THEN Failure(t)
       ELSE IF t.ops[prevIf].name # "scf.if" THEN Failure(t)
       ELSE IF t.ops[prevIf].nres # 0
       THEN Outcome(t, "success", 0, <<>>, prevIf)
       ELSE Outcome(Interchange(t, nextParallel, prevIf,
                                RegionBlock(t, prevIf), FALSE),
                    "success", 0, <<>>, prevIf)

\* ParallelIfInterchange::matchAndRewrite; IfOp::getBody() is the block of
\* the first region, the then branch
ParallelIfInterchange(t, nextParallel) ==
    LET parent == BlockOf(t, nextParallel)
        prevIf == ParentOp(t, nextParallel)
    IN IF Len(t.blocks[parent].ops) # 2 THEN Failure(t)
       ELSE IF t.ops[prevIf].name # "scf.if" \/ t.ops[prevIf].nres # 0
       THEN Failure(t)
       ELSE Outcome(Interchange(t, nextParallel, prevIf,
                                RegionBlock(t, prevIf), FALSE),
                    "success", 0, <<>>, prevIf)

\* a variant of Patterns without ParallelIfInterchange
PatternsWithoutIf == <<"CombineParallel", "ParallelForInterchange">>

\* the patterns in the order runOnOperation registers them
Patterns == <<"CombineParallel", "ParallelForInterchange", "ParallelIfInterchange">>

ApplyPattern(name, t, p) ==
    CASE name = "CombineParallel" -> CombineParallel(t, p)
      [] name = "ParallelForInterchange" -> ParallelForInterchange(t, p)
      [] name = "ParallelIfInterchange" -> ParallelIfInterchange(t, p)

-----------------------------------------------------------------------------
(* The input functions *)

\* The function is operation 1 and its body is block 1.  The i-th operation
\* of block b has id 10b+i and the terminator of b has id 10b+9; the block
\* of region j of operation n has id 10n+j.

\* an operation of the input: a load, a store, a parallel region (its body
\* is a store and a load), a loop or a conditional with what they hold
Item(kind, res, body, else, hasElse) ==
    [kind |-> kind, res |-> res, body |-> body, else |-> else, hasElse |-> hasElse]

Basic(kind) == Item(kind, 0, <<>>, <<>>, FALSE)

BasicItems == {Basic("load"), Basic("store"), Basic("par")}

Par == Basic("par")

\* the loops and conditionals of the input, and a parallel region that holds
\* another ("outer")
Hosts ==
    {Item("for", 0, <<Par>>, <<>>, FALSE),
     Item("for", 1, <<Par>>, <<>>, FALSE),
     Item("for", 0, <<Par, Basic("store")>>, <<>>, FALSE),
     Item("for", 0, <<Basic("load"), Par>>, <<>>, FALSE),
     Item("for", 0, <<Item("if", 0, <<Par>>, <<>>, FALSE)>>, <<>>, FALSE),
     Item("if", 0, <<Par>>, <<>>, FALSE),
     Item("if", 0, <<Par>>, <<>>, TRUE),
     Item("if", 1, <<Par>>, <<>>, TRUE),
     Item("if", 0, <<Par>>, <<Basic("store")>>, TRUE),
     Item("if", 0, <<>>, <<Par>>, TRUE),
     Item("if", 0, <<Basic("store")>>, <<Par>>, TRUE),
     Item("for", 0, <<Basic("load"), Basic("store"), Basic("load"), Par>>,
          <<>>, FALSE),
     Item("for", 0, <<Basic("load"), Basic("load"), Par>>, <<>>, FALSE),
     Item("outer", 0, <<Par>>, <<>>, FALSE)}

Fragment(o, b) == [ops |-> o, blocks |-> b]

Join(f, g) == Fragment(f.ops @@ g.ops, f.blocks @@ g.blocks)

EmptyFragment == Fragment(<<>>, <<>>)

Leaf(name) ==
    CASE name = "load" -> Rec("load", 1, TRUE, {"read"}, FALSE, <<>>)
      [] name = "store" -> Rec("store", 0, TRUE, {"write"}, FALSE, <<>>)
      [] OTHER -> Rec(name, 0, TRUE, {}, FALSE, <<>>)

BlockRec(s, arg) == [ops |-> s, arg |-> arg, owner |-> 0]

\* the back-references of a fragment, from its lists
Link(f) ==
    [ops |-> [o \in DOMAIN f.ops |->
                [f.ops[o] EXCEPT !.block =
                    IF \E b \in DOMAIN f.blocks : o \in Range(f.blocks[b].ops)
                    THEN CHOOSE b \in DOMAIN f.blocks : o \in Range(f.blocks[b].ops)
                    ELSE 0]],
     blocks |-> [b \in DOMAIN f.blocks |->
                [f.blocks[b] EXCEPT !.owner =
                    CHOOSE q \in DOMAIN f.ops : b \in BlocksOf(f.ops[q])]]]

RECURSIVE BuildOp(_, _)
RECURSIVE BuildBlock(_, _, _, _)
\* the block b holding the operations of seq and the terminator term
BuildBlock(seq, b, term, arg) ==
    LET ids == [i \in 1..Len(seq) |-> 10 * b + i]
        RECURSIVE Sub(_)
        Sub(i) == IF i > Len(seq) THEN EmptyFragment
                  ELSE Join(BuildOp(seq[i], ids[i]), Sub(i + 1))
    IN Join(Fragment((10 * b + 9) :> Leaf(term),
                     b :> BlockRec(Append(ids, 10 * b + 9), arg)),
            Sub(1))

\* operation n for item with everything nested in it
BuildOp(item, n) ==
    CASE item.kind = "par" ->
            Join(Fragment(n :> Rec("omp.parallel", 0, FALSE, {}, FALSE,
                                   <<<<10 * n + 1>>>>), <<>>),
                 BuildBlock(<<Basic("store"), Basic("load")>>, 10 * n + 1,
                            "omp.terminator", FALSE))
      [] item.kind = "outer" ->
            Join(Fragment(n :> Rec("omp.parallel", 0, FALSE, {}, FALSE,
                                   <<<<10 * n + 1>>>>), <<>>),
                 BuildBlock(item.body, 10 * n + 1, "omp.terminator", FALSE))
      [] item.kind = "for" ->
            Join(Fragment(n :> Rec("scf.for", item.res, FALSE, {}, TRUE,
                                   <<<<10 * n + 1>>>>), <<>>),
                 BuildBlock(item.body, 10 * n + 1, "scf.yield", TRUE))
      [] item.kind = "if" ->
            Join(Fragment(n :> Rec("scf.if", item.res, FALSE, {}, TRUE,
                                   <<<<10 * n + 1>>,
                                     IF item.hasElse THEN <<10 * n + 2>>
                                     ELSE <<>>>>), <<>>),
                 Join(BuildBlock(item.body, 10 * n + 1, "scf.yield", FALSE),
                      IF item.hasElse
                      THEN BuildBlock(item.else, 10 * n + 2, "scf.yield", FALSE)
                      ELSE EmptyFragment))
      [] OTHER -> Fragment(n :> Leaf(item.kind), <<>>)

SetMax(S) == CHOOSE x \in S : \A y \in S : y <= x

\* the function whose body holds the operations of the kinds in seq
BuildFunc(seq) ==
    LET f == Link(Join(Fragment(1 :> Rec("func.func", 0, FALSE, {}, FALSE,
                                        <<<<1>>>>), <<>>),
                       BuildBlock(seq, 1, "func.return", FALSE)))
    IN [ops |-> f.ops, blocks |-> f.blocks,
        next |-> 1 + SetMax(DOMAIN f.ops \cup DOMAIN f.blocks)]

\* v is visible at operation u: v is the result of an operation that comes
\* before u, or before an operation u is nested in, in the same block; or v
\* is the argument of a block u is in or nested in
Dominates(t, v, u) ==
    IF v[1] = "r"
    THEN /\ v[2] \in DOMAIN t.ops
         /\ HasBlock(t, v[2])
         /\ LET s == t.blocks[BlockOf(t, v[2])].ops
            IN \E i, j \in 1..Len(s) :
                  i < j /\ s[i] = v[2] /\ IsAncestor(t, s[j], u)
    ELSE /\ v[2] \in DOMAIN t.blocks
         /\ t.blocks[v[2]].arg
         /\ \E a \in Range(t.blocks[v[2]].ops) : IsAncestor(t, a, u)

InParallel(t, o) ==
    \E q \in DOMAIN t.ops : IsParallel(t, q) /\ IsProperAncestor(t, q, o)

\* the values of the input that get users: the results of the loads outside
\* the parallel regions and the induction variables of the loops
InputValues(t) ==
    {<<"r", o>> : o \in {x \in DOMAIN t.ops :
                            t.ops[x].name = "load" /\ ~InParallel(t, x)}}
    \cup {<<"a", b>> : b \in {x \in DOMAIN t.blocks : t.blocks[x].arg}}

\* the operations that may take v as an operand
Candidates(t, v) ==
    {u \in DOMAIN t.ops :
        /\ \/ t.ops[u].name \in {"store", "omp.parallel"}
           \/ t.ops[u].name = "load" /\ ~InParallel(t, u)
        /\ Dominates(t, v, u)}

WithUses(t, uses) ==
    [t EXCEPT !.ops =
        [u \in DOMAIN t.ops |->
            [t.ops[u] EXCEPT !.operands =
                {v \in DOMAIN uses : u \in uses[v]}]]]

\* the function bodies: up to MaxTop operations, a loop, a conditional or an
\* outer parallel counting for two; one of these at most, one parallel
\* region at least
TopSeqs(n) ==
    {s \in [1..n -> BasicItems \cup Hosts] :
        /\ Cardinality({i \in 1..n : s[i] \in Hosts}) <= 1
        /\ n + Cardinality({i \in 1..n : s[i] \in Hosts}) <= MaxTop
        /\ \E i \in 1..n : s[i] \in Hosts \cup {Par}}

\* the ways to give each value of vals no user or one user, k values at most
\* getting a user
RECURSIVE UseMaps(_, _, _)
UseMaps(t, vals, k) ==
    IF vals = {} THEN {<<>>}
    ELSE LET v == CHOOSE x \in vals : TRUE
         IN {(v :> {}) @@ m : m \in UseMaps(t, vals \ {v}, k)}
            \cup (IF k = 0 THEN {}
                  ELSE {(v :> {u}) @@ m : u \in Candidates(t, v),
                                          m \in UseMaps(t, vals \ {v}, k - 1)})

\* t is an input function
IsInput(t) ==
    \E n \in 1..MaxTop : \E seq \in TopSeqs(n) :
        \E uses \in UseMaps(BuildFunc(seq), InputValues(BuildFunc(seq)), MaxUses) :
            t = WithUses(BuildFunc(seq), uses)

-----------------------------------------------------------------------------
(* The driver *)

Workers == 1..NumWorkers

NoVisit(t) ==
    [p |-> 0, rule |-> "none", pre |-> t, merged |-> 0, moved |-> <<>>,
     host |-> 0]

\* the state of the driver when patterns are applied outside its loop
NoDriver ==
    [iter |-> 0, changed |-> FALSE, work |-> {}, failed |-> FALSE, input |-> 0]

Init ==
    /\ IsInput(ir)
    /\ last = NoVisit(ir)
    /\ phase = "rewrite"
    /\ prog = <<>>
    /\ pc = [w \in Workers |-> 0]
    /\ drv = NoDriver

\* the outcome of the first pattern that succeeds on p, else a failure
\* (GreedyRewriteConfig tries the registered patterns in order on each
\* omp.parallel it takes from its worklist)
RECURSIVE FirstSuccess(_, _, _)
FirstSuccess(t, p, i) ==
    IF i > Len(Patterns) THEN [rule |-> "none", out |-> Failure(t)]
    ELSE LET out == ApplyPattern(Patterns[i], t, p)
         IN IF out.res = "success" THEN [rule |-> Patterns[i], out |-> out]
            ELSE FirstSuccess(t, p, i + 1)

\* one omp.parallel is taken from the worklist
Visit(p) ==
    /\ phase = "rewrite"
    /\ IsParallel(ir, p)
    /\ \E r \in {FirstSuccess(ir, p, 1)} :
          /\ ir' = r.out.ir
          /\ last' = [p |-> p, rule |-> r.rule, pre |-> ir,
                      merged |-> r.out.merged, moved |-> r.out.moved,
                      host |-> r.out.host]
    /\ UNCHANGED <<phase, prog, pc, drv>>

Next == \E p \in DOMAIN ir.ops : Visit(p)

Spec == Init /\ [][Next]_vars

-----------------------------------------------------------------------------
(* The execution of a rewritten parallel region by its team *)

\* one step of a worker: operation op (bar: it is a barrier) in the loop
\* iterations iter, reached through operation top of the region's block
Event(o, bar, iter, top) == [op |-> o, bar |-> bar, iter |-> iter, top |-> top]

\* what one worker executes in block b, in order: every worker runs every
\* iteration of a loop; cond is the outcome of the conditions; a nested
\* parallel region is one step of the worker that reaches it
RECURSIVE Flatten(_, _, _, _, _)
Flatten(t, b, cond, iter, top) ==
    LET s == t.blocks[b].ops
        RECURSIVE Iterations(_, _, _)
        Iterations(o, k, tp) ==
            IF k > Trip THEN <<>>
            ELSE Flatten(t, RegionBlock(t, o), cond, Append(iter, k), tp)
                 \o Iterations(o, k + 1, tp)
        OfOp(o) ==
            LET rec == t.ops[o]
                tp == IF top = 0 THEN o ELSE top
            IN CASE rec.name \in Terminators -> <<>>
                 [] rec.name = "omp.barrier" -> <<Event(o, TRUE, iter, tp)>>
                 [] rec.name = "scf.for" -> Iterations(o, 1, tp)
                 [] rec.name = "scf.if" ->
                        IF cond THEN Flatten(t, rec.regions[1][1], cond, iter, tp)
                        ELSE IF rec.regions[2] # <<>>
                        THEN Flatten(t, rec.regions[2][1], cond, iter, tp)
                        ELSE <<>>
                 [] OTHER -> <<Event(o, FALSE, iter, tp)>>
        RECURSIVE From(_)
        From(i) == IF i > Len(s) THEN <<>> ELSE OfOp(s[i]) \o From(i + 1)
    IN From(1)

\* the inputs whose rewritten regions are executed: no loop results, no
\* conditional with an else region, no users
ExecItems ==
    {Basic("load"), Par,
     Item("for", 0, <<Par>>, <<>>, FALSE),
     Item("for", 0, <<Basic("load"), Par>>, <<>>, FALSE),
     Item("if", 0, <<Par>>, <<>>, FALSE)}

InitExec ==
    /\ \E n \in 1..MaxTop : \E seq \in TopSeqs(n) :
          /\ \A i \in 1..n : seq[i] \in ExecItems
          /\ ir = BuildFunc(seq)
    /\ last = NoVisit(ir)
    /\ phase = "rewrite"
    /\ prog = <<>>
    /\ pc = [w \in Workers |-> 0]
    /\ drv = NoDriver

\* the region the last visit rewrote
Rewritten == IF last.merged # 0 THEN last.merged ELSE last.p

\* the team enters the region the last visit rewrote
StartExec ==
    /\ phase = "rewrite"
    /\ last.rule # "none"
    /\ phase' = "exec"
    /\ \E cond \in BOOLEAN :
          prog' = Flatten(ir, RegionBlock(ir, Rewritten), cond, <<>>, 0)
    /\ UNCHANGED <<ir, last, pc, drv>>

\* worker w executes its next operation; it leaves a barrier once every
\* worker has reached that barrier
Step(w) ==
    /\ phase = "exec"
    /\ pc[w] < Len(prog)
    /\ prog[pc[w] + 1].bar => \A v \in Workers : pc[v] >= pc[w]
    /\ pc' = [pc EXCEPT ![w] = @ + 1]
    /\ UNCHANGED <<ir, last, phase, prog, drv>>

NextExec ==
    \/ \E p \in DOMAIN ir.ops : Visit(p)
    \/ StartExec
    \/ \E w \in Workers : Step(w)

SpecExec == InitExec /\ [][NextExec]_vars

-----------------------------------------------------------------------------
(* Properties *)

\* the operations of block b of t but its terminator
NonTerm(t, b) == SubSeq(t.blocks[b].ops, 1, Len(t.blocks[b].ops) - 1)

\* two records of the same operation, wherever it is
SameOp(r1, r2) == [r1 EXCEPT !.block = 0] = [r2 EXCEPT !.block = 0]

\* o is a barrier the last visit created
NewBarrier(o) ==
    /\ o \in DOMAIN ir.ops
    /\ o \notin DOMAIN last.pre.ops
    /\ ir.ops[o].name = "omp.barrier"

\* the clones the last visit put at the front of its parallel, in block order
Clones == [i \in 1..Len(last.moved) |-> last.moved[Len(last.moved) + 1 - i].clone]

\* the last visit merged parallel{A}; Q; parallel{B}, relocating Q
C1Case ==
    /\ last.rule = "CombineParallel"
    /\ last.merged # 0
    /\ Len(last.moved) = 1

\* what C1 says of everything but the order in the merged block: Q and the
\* second parallel are gone from the tree and from their block, the clone is
\* a new operation equal to Q and Q's users use it
C1Frame ==
    LET pre == last.pre
        Q == last.moved[1].orig
        clone == last.moved[1].clone
        top == BlockOf(pre, last.p)
    IN /\ Q \notin DOMAIN ir.ops
       /\ last.p \notin DOMAIN ir.ops
       /\ ir.blocks[top].ops = Without(Without(pre.blocks[top].ops, Q), last.p)
       /\ clone \notin DOMAIN pre.ops
       /\ SameOp(ir.ops[clone], pre.ops[Q])
       /\ \A u \in Users(pre, Q) \cap DOMAIN ir.ops :
             <<"r", clone>> \in ir.ops[u].operands

\* C1 as stated: the merged body is A, the clone of Q, a barrier, B
C1_Original ==
    C1Case =>
        /\ C1Frame
        /\ \E bar \in DOMAIN ir.ops :
              /\ NewBarrier(bar)
              /\ ir.blocks[RegionBlock(ir, last.merged)].ops
                   = NonTerm(last.pre, RegionBlock(last.pre, last.merged))
                     \o <<last.moved[1].clone, bar>>
                     \o last.pre.blocks[RegionBlock(last.pre, last.p)].ops

\* C1 (amended): CombineParallel on parallel{A}; Q; parallel{B}, Q read-only
\* with all users inside the second region, leaves one parallel whose body is
\* A, a barrier, the clone of Q, B: the clone comes after the barrier; Q is
\* erased
C1_Amended ==
    C1Case =>
        /\ C1Frame
        /\ \E bar \in DOMAIN ir.ops :
              /\ NewBarrier(bar)
              /\ ir.blocks[RegionBlock(ir, last.merged)].ops
                   = NonTerm(last.pre, RegionBlock(last.pre, last.merged))
                     \o <<bar, last.moved[1].clone>>
                     \o last.pre.blocks[RegionBlock(last.pre, last.p)].ops

C1_Witness ==
    /\ C1Case
    /\ \E u \in Users(last.pre, last.moved[1].orig) :
          IsProperAncestor(last.pre, last.p, u)

\* the last visit reached a preceding parallel and merged into it
C2Case == last.rule = "CombineParallel" /\ last.merged # 0

\* C2: after a merge the block of the preceding parallel Q holds Q's former
\* operations but the terminator, in order, then one new barrier where the
\* terminator was, then the operations of P's block in order (the relocated
\* clones first), ending with P's terminator, the only terminator of the
\* block; Q's terminator and P are gone
C2_MergedBlock ==
    C2Case =>
        LET pre == last.pre
            qb == RegionBlock(pre, last.merged)
            pb == RegionBlock(pre, last.p)
            now == ir.blocks[qb].ops
            n == Len(pre.blocks[qb].ops)
        IN /\ RegionBlock(ir, last.merged) = qb
           /\ ir.ops[last.merged].regions = <<<<qb>>>>
           /\ Len(now) >= n
           /\ NewBarrier(now[n])
           /\ now = NonTerm(pre, qb) \o <<now[n]>> \o Clones \o pre.blocks[pb].ops
           /\ \A i \in 1..Len(now) :
                 ir.ops[now[i]].name \in Terminators <=> i = Len(now)
           /\ now[Len(now)] = Terminator(pre, pb)
           /\ \A i \in 1..Len(now) : ir.ops[now[i]].block = qb
           /\ Terminator(pre, qb) \notin DOMAIN ir.ops
           /\ last.p \notin DOMAIN ir.ops
           /\ pb \notin DOMAIN ir.blocks

C2_Witness == C2Case /\ last.moved = <<>>

\* the operations of the first and of the second region of the last merge
\* (the second with the clones relocated into it)
FirstOps == Range(NonTerm(last.pre, RegionBlock(last.pre, last.merged)))

SecondOps ==
    Range(Clones) \cup Range(NonTerm(last.pre, RegionBlock(last.pre, last.p)))

\* C3: in a merged region no worker executes an operation of the second
\* region, relocated clones included, before every worker has executed every
\* operation of the first region
C3_HappensBefore ==
    phase = "exec" /\ last.merged # 0 =>
        LET first == FirstOps
            second == SecondOps
        IN \A i, j \in 1..Len(prog) :
               prog[i].top \in second /\ prog[j].top \in first =>
                   \A w1, w2 \in Workers : pc[w1] >= i => pc[w2] >= j

C3_Witness ==
    /\ phase = "exec"
    /\ last.merged # 0
    /\ Len(last.moved) > 0
    /\ \E j \in 1..Len(prog) : prog[j].top \in FirstOps
    /\ \E w \in Workers : \E i \in 1..pc[w] : prog[i].op = Clones[1]

\* s with x in the place of y
Replaced(s, y, x) == [i \in DOMAIN s |-> IF s[i] = y THEN x ELSE s[i]]

\* the barriers of tree t
Barriers(t) == {o \in DOMAIN t.ops : t.ops[o].name = "omp.barrier"}

\* the last visit interchanged its parallel with a conditional
C4Case == last.rule = "ParallelIfInterchange"

\* C4: ParallelIfInterchange puts P where the conditional I was, I alone
\* with a terminator in P, and the body of P in the branch of I that held P;
\* the other branch is as it was and no barrier is created
C4_SameBranch ==
    C4Case =>
        LET pre == last.pre
            P == last.p
            I == last.host
            outer == BlockOf(pre, I)
            branch == BlockOf(pre, P)
            pb == RegionBlock(pre, P)
        IN /\ ir.blocks[outer].ops = Replaced(pre.blocks[outer].ops, I, P)
           /\ Len(ir.blocks[RegionBlock(ir, P)].ops) = 2
           /\ Front(ir, RegionBlock(ir, P)) = I
           /\ ir.ops[I].regions = pre.ops[I].regions
           /\ ir.blocks[branch].ops
                = NonTerm(pre, pb) \o <<Terminator(pre, branch)>>
           /\ \A b \in BlocksOf(pre.ops[I]) \ {branch} :
                 ir.blocks[b].ops = pre.blocks[b].ops
           /\ Barriers(ir) = Barriers(pre)

\* C5: an interchange happens only when the parallel is the only operation
\* but terminators in all the blocks of the loop or conditional
C5_OnlyContent ==
    last.rule \in {"ParallelForInterchange", "ParallelIfInterchange"} =>
        \A b \in BlocksOf(last.pre.ops[last.host]) :
            \A o \in Range(last.pre.blocks[b].ops) :
                o = last.p \/ last.pre.ops[o].name \in Terminators

\* C6: every operation CombineParallel relocates is read-only and all the
\* users of its results are strictly inside P (or were relocated into P
\* before it, in the same scan)
C6_UsersInside ==
    last.rule = "CombineParallel" =>
        \A k \in 1..Len(last.moved) :
            /\ isReadOnly(last.pre, last.moved[k].orig)
            /\ \A u \in Users(last.pre, last.moved[k].orig) :
                  \/ IsProperAncestor(last.pre, last.p, u)
                  \/ \E j \in 1..(k - 1) : last.moved[j].orig = u

\* C7: every operand of every operation is visible where it is used
C7_Dominance ==
    \A u \in DOMAIN ir.ops : \A v \in ir.ops[u].operands : Dominates(ir, v, u)

\* the last visit interchanged its parallel with a loop
C8Case == last.rule = "ParallelForInterchange"

\* C8: ParallelForInterchange puts P where the loop F was; the region of P
\* is one block holding F and a clone of P's terminator; the body of F is
\* the former operations of P but its terminator, in order, one new barrier
\* and F's terminator; P's former terminator is erased
C8_ForInterchange ==
    C8Case =>
        LET pre == last.pre
            P == last.p
            F == last.host
            outer == BlockOf(pre, F)
            fb == RegionBlock(pre, F)
            pb == RegionBlock(pre, P)
            inP == ir.blocks[pb].ops
            inF == ir.blocks[fb].ops
            n == Len(pre.blocks[pb].ops)
        IN /\ ir.blocks[outer].ops = Replaced(pre.blocks[outer].ops, F, P)
           /\ ir.ops[P].block = outer
           /\ ir.ops[P].regions = <<<<pb>>>>
           /\ Len(inP) = 2
           /\ inP[1] = F
           /\ ir.ops[F].block = pb
           /\ inP[2] \notin DOMAIN pre.ops
           /\ SameOp(ir.ops[inP[2]], pre.ops[Terminator(pre, pb)])
           /\ ir.ops[F].regions = <<<<fb>>>>
           /\ Len(inF) = n + 1
           /\ inF = NonTerm(pre, pb) \o <<inF[n]>> \o <<Terminator(pre, fb)>>
           /\ NewBarrier(inF[n])
           /\ Barriers(ir) = Barriers(pre) \cup {inF[n]}
           /\ \A i \in 1..Len(inF) : ir.ops[inF[i]].block = fb
           /\ Terminator(pre, pb) \notin DOMAIN ir.ops

C8_Witness == C8Case /\ Len(ir.blocks[RegionBlock(ir, last.host)].ops) > 2

\* the events of iteration k of the loop of the last interchange, but the
\* barrier the interchange created
InIteration(e, k) ==
    /\ e.top = last.host
    /\ e.iter # <<>>
    /\ e.iter[1] = k
    /\ e.op \in DOMAIN last.pre.ops

\* C9: after ParallelForInterchange no worker executes an operation of the
\* body in iteration k+1 before every worker has executed the body in
\* iteration k
C9_IterationSync ==
    phase = "exec" /\ last.rule = "ParallelForInterchange" =>
        \A i, j \in 1..Len(prog) : \A k \in 1..Trip :
            InIteration(prog[i], k + 1) /\ InIteration(prog[j], k) =>
                \A w1, w2 \in Workers : pc[w1] >= i => pc[w2] >= j

C9_Witness ==
    /\ phase = "exec"
    /\ last.rule = "ParallelForInterchange"
    /\ \E w \in Workers : \E i \in 1..pc[w] : InIteration(prog[i], 2)
    /\ \E j \in 1..Len(prog) : InIteration(prog[j], 1)

\* the last visit took a parallel whose block is that of a loop with results
C10Case ==
    /\ last.p # 0
    /\ HasBlock(last.pre, last.p)
    /\ last.pre.ops[ParentOp(last.pre, last.p)].name = "scf.for"
    /\ last.pre.ops[ParentOp(last.pre, last.p)].nres > 0

\* C10: when the loop around P has results ParallelForInterchange fails and
\* leaves the tree as it was, and for{parallel{body}} is rewritten by no
\* other pattern either
C10_ForWithResults ==
    C10Case =>
        /\ ParallelForInterchange(last.pre, last.p) = Failure(last.pre)
        /\ Len(last.pre.blocks[BlockOf(last.pre, last.p)].ops) = 2 =>
              last.rule = "none" /\ ir = last.pre

C10_Witness ==
    C10Case /\ Len(last.pre.blocks[BlockOf(last.pre, last.p)].ops) = 2

\* the last visit took a parallel that has a predecessor in its block
HasPred == 
    /\ last.p # 0
    /\ HasBlock(last.pre, last.p)
    /\ last.p # Front(last.pre, BlockOf(last.pre, last.p))

\* the last visit took a parallel whose predecessor is not a parallel and
\* declares a write
C11Case ==
    /\ HasPred
    /\ ~IsParallel(last.pre, PrevNode(last.pre, last.p))
    /\ "write" \in last.pre.ops[PrevNode(last.pre, last.p)].effects

\* C11: on parallel{A}; W; parallel{B} with W writing, CombineParallel on the
\* second parallel fails, relocates nothing and merges nothing, and the visit
\* leaves the tree as it was
C11_StopsAtWrite ==
    C11Case =>
        /\ CombineParallel(last.pre, last.p) = Failure(last.pre)
        /\ last.rule = "none"
        /\ last.moved = <<>>
        /\ last.merged = 0
        /\ ir = last.pre

C11_Witness ==
    /\ C11Case
    /\ LET s == last.pre.blocks[BlockOf(last.pre, last.p)].ops
           i == PosIn(s, last.p)
       IN i > 2 /\ IsParallel(last.pre, s[i - 2])

\* the last visit took a parallel that is first in its block, or the only
\* parallel of the function but for those nested in it
C12Case ==
    /\ last.p # 0
    /\ \/ ~HasPred
       \/ \A o \in DOMAIN last.pre.ops :
             IsParallel(last.pre, o) => IsAncestor(last.pre, last.p, o)

\* C12: CombineParallel fails and changes nothing on a parallel that is first
\* in its block and on one that contains every parallel of the function; in
\* the second case a read-only predecessor is not relocated
C12_GuardsFail ==
    C12Case =>
        /\ CombineParallel(last.pre, last.p) = Failure(last.pre)
        /\ last.rule # "CombineParallel"
        /\ last.moved = <<>>
        /\ last.merged = 0
        /\ HasPred =>
              /\ ir = last.pre
              /\ PrevNode(ir, last.p) = PrevNode(last.pre, last.p)

\* a parallel that holds the only other parallel of the function comes after
\* an operation that could move
C12_Witness ==
    /\ C12Case
    /\ HasPred
    /\ Eligible(last.pre, last.p, PrevNode(last.pre, last.p))
    /\ \E o \in DOMAIN last.pre.ops :
          IsParallel(last.pre, o) /\ IsProperAncestor(last.pre, last.p, o)

\* the operations and blocks of t
Tree(t) == [ops |-> t.ops, blocks |-> t.blocks]

\* the last visit relocated and did not merge
C13Case ==
    /\ last.rule = "CombineParallel"
    /\ last.moved # <<>>
    /\ last.merged = 0

\* C13: each of the three patterns, applied to the parallel of the last
\* visit, leaves the tree as it was when it fails and changes it when it
\* succeeds; CombineParallel that relocated and then stopped, at an operation
\* that may not move or at the start of the block, succeeds and merges
\* nothing
C13_AllOrNothing ==
    last.p # 0 =>
        /\ \A i \in 1..Len(Patterns) :
              LET out == ApplyPattern(Patterns[i], last.pre, last.p)
              IN /\ out.res = "failure" => out.ir = last.pre
                 /\ out.res = "success" => Tree(out.ir) # Tree(last.pre)
        /\ LET out == CombineParallel(last.pre, last.p)
           IN out.moved # <<>> /\ out.merged = 0 =>
                 /\ out.res = "success"
                 /\ last.rule = "CombineParallel"
                 /\ Barriers(ir) = Barriers(last.pre)
                 /\ last.p \in DOMAIN ir.ops
                 /\ DOMAIN ir.blocks = DOMAIN last.pre.blocks

\* relocated, then stopped at an operation that may not move
C13_Witness ==
    /\ C13Case
    /\ last.p # Front(ir, BlockOf(ir, last.p))
    /\ ~IsParallel(ir, PrevNode(ir, last.p))

\* no element of sequence s occurs twice
NoRepeat(s) == \A i, j \in 1..Len(s) : s[i] = s[j] => i = j

\* the blocks of all the regions of an operation, in order
RECURSIVE Concat(_)
Concat(ss) == IF ss = <<>> THEN <<>> ELSE Head(ss) \o Concat(Tail(ss))

\* o is the function or is reached from it: n steps up at most lead from o to
\* an operation that is in no block
RECURSIVE Rooted(_, _, _)
Rooted(t, o, n) ==
    IF ~HasBlock(t, o) THEN t.ops[o].name = "func.func"
    ELSE /\ n > 0
         /\ BlockOf(t, o) \in DOMAIN t.blocks
         /\ ParentOp(t, o) \in DOMAIN t.ops
         /\ Rooted(t, ParentOp(t, o), n - 1)

\* the containment structure of t is a tree with one terminator, the last
\* operation, in every block: an operation is listed once, in the one block
\* it belongs to; a block is listed once, in a region of the one operation
\* that owns it; every operation hangs below the function
WellFormed(t) ==
    /\ \A o \in DOMAIN t.ops :
          LET bs == Concat(t.ops[o].regions)
          IN /\ HasBlock(t, o) =>
                   /\ BlockOf(t, o) \in DOMAIN t.blocks
                   /\ o \in Range(t.blocks[BlockOf(t, o)].ops)
             /\ Range(bs) \subseteq DOMAIN t.blocks
             /\ NoRepeat(bs)
             /\ \A b \in Range(bs) : BlockParentOp(t, b) = o
             /\ Rooted(t, o, Cardinality(DOMAIN t.ops))
    /\ \A b \in DOMAIN t.blocks :
          LET s == t.blocks[b].ops
          IN /\ Range(s) \subseteq DOMAIN t.ops
             /\ NoRepeat(s)
             /\ \A o \in Range(s) : BlockOf(t, o) = b
             /\ BlockParentOp(t, b) \in DOMAIN t.ops
             /\ b \in BlocksOf(t.ops[BlockParentOp(t, b)])
             /\ Len(s) >= 1
             /\ \A i \in 1..Len(s) :
                   t.ops[s[i]].name \in Terminators <=> i = Len(s)

\* C14: after every visit the containment structure is a tree (one block for
\* every operation, one region for every block, nothing contains its owner),
\* every block has one terminator, its last operation, and after an
\* interchange the region of the parallel is one block
C14_WellFormed ==
    /\ WellFormed(ir)
    /\ last.rule \in {"ParallelForInterchange", "ParallelIfInterchange"} =>
          /\ Len(ir.ops[last.p].regions) = 1
          /\ Len(ir.ops[last.p].regions[1]) = 1
          /\ DOMAIN ir.blocks = DOMAIN last.pre.blocks

\* an interchange took the parallel out of the else region of a conditional
C14_Witness ==
    /\ last.rule = "ParallelIfInterchange"
    /\ last.pre.ops[last.host].regions[2] = <<BlockOf(last.pre, last.p)>>

\* the operations the last visit relocated, in block order
Origs == [i \in 1..Len(last.moved) |-> last.moved[Len(last.moved) + 1 - i].orig]

\* the last visit relocated
C20Case == last.rule = "CombineParallel" /\ last.moved # <<>>

\* C20: the operations one CombineParallel relocates are the k operations
\* just before P in its block; their clones are at the front of what was P's
\* block, in the order of the originals, followed by the former operations
\* of P; the operation before them, if any, is a parallel (merged into) or
\* may not move, and nothing before it is relocated
C20_RelocationOrder ==
    C20Case =>
        LET pre == last.pre
            P == last.p
            s == pre.blocks[BlockOf(pre, P)].ops
            i == PosIn(s, P)
            k == Len(last.moved)
            pb == RegionBlock(pre, P)
        IN /\ k < i
           /\ Origs = SubSeq(s, i - k, i - 1)
           /\ \A j \in 1..k : /\ Origs[j] \notin DOMAIN ir.ops
                              /\ Clones[j] \notin DOMAIN pre.ops
                              /\ ir.ops[Clones[j]].name = pre.ops[Origs[j]].name
           /\ \A j \in 1..(i - k - 1) : s[j] \in DOMAIN ir.ops
           /\ IF last.merged = 0
              THEN /\ ir.blocks[pb].ops = Clones \o pre.blocks[pb].ops
                   /\ ir.blocks[BlockOf(pre, P)].ops
                        = SubSeq(s, 1, i - k - 1) \o SubSeq(s, i, Len(s))
                   /\ i - k > 1 =>
                         /\ ~IsParallel(pre, s[i - k - 1])
                         /\ ~Eligible(ir, P, s[i - k - 1])
              ELSE /\ last.merged = s[i - k - 1]
                   /\ LET mb == ir.blocks[RegionBlock(ir, last.merged)].ops
                          n == Len(pre.blocks[pb].ops)
                      IN SubSeq(mb, Len(mb) - n - k + 1, Len(mb))
                            = Clones \o pre.blocks[pb].ops

\* two operations were relocated
C20_Witness == C20Case /\ Len(last.moved) >= 2

\* an operation was relocated and one that could move, had it been next to
\* the parallel, stays behind one that may not
C20_Separated ==
    /\ C20Case
    /\ LET s == ir.blocks[BlockOf(ir, last.p)].ops
           i == PosIn(s, last.p)
       IN /\ i > 2
          /\ ~Eligible(ir, last.p, s[i - 1])
          /\ Eligible(ir, last.p, s[i - 2])

-----------------------------------------------------------------------------
(* The driver's loop.  runOnOperation hands the patterns to the greedy     *)
(* driver with maxIterations = 47 and drops what the driver returns.  An   *)
(* iteration puts every operation of the function on the worklist and      *)
(* applies the patterns to the operations it takes from it until it is     *)
(* empty; operations touched by a rewrite may be put back.  A further      *)
(* iteration starts when the last one changed something and the cap is not *)
(* reached.  Only the parallel regions are kept on the worklist here, as   *)
(* the three patterns match nothing else.                                  *)

\* GreedyRewriteConfig::maxIterations as runOnOperation sets it
maxIterations == 47

\* depth of the loop nest of the deepest input of the driver
MaxNest == 48

Parallels(t) == {o \in DOMAIN t.ops : IsParallel(t, o)}

\* a parallel region (its body is a store and a load) inside d nested loops:
\* loop k is operation 100+k, its body is block 100+k and ends with 200+k;
\* the parallel is operation 300 and its body is block 300
Nest(d) ==
    LET at(rec, b) == [rec EXCEPT !.block = b]
        fixed == (1 :> Rec("func.func", 0, FALSE, {}, FALSE, <<<<1>>>>))
                 @@ (2 :> at(Leaf("func.return"), 1))
                 @@ (300 :> at(Rec("omp.parallel", 0, FALSE, {}, FALSE, <<<<300>>>>),
                               IF d = 0 THEN 1 ELSE 100 + d))
                 @@ (301 :> at(Leaf("store"), 300))
                 @@ (302 :> at(Leaf("load"), 300))
                 @@ (303 :> at(Leaf("omp.terminator"), 300))
        loops == [o \in {100 + k : k \in 1..d} |->
                    at(Rec("scf.for", 0, FALSE, {}, TRUE, <<<<o>>>>),
                       IF o = 101 THEN 1 ELSE o - 1)]
        yields == [o \in {200 + k : k \in 1..d} |-> at(Leaf("scf.yield"), o - 100)]
        bodies == [b \in {100 + k : k \in 1..d} |->
                     [ops |-> <<IF b = 100 + d THEN 300 ELSE b + 1, b + 100>>,
                      arg |-> TRUE, owner |-> b]]
    IN [ops |-> fixed @@ loops @@ yields,
        blocks |-> (1 :> [ops |-> <<IF d = 0 THEN 300 ELSE 101, 2>>,
                          arg |-> FALSE, owner |-> 1])
                   @@ (300 :> [ops |-> <<301, 302, 303>>, arg |-> FALSE,
                               owner |-> 300])
                   @@ bodies,
        next |-> 400]

\* the driver starts its first iteration on an input function
InitDriver ==
    /\ IsInput(ir) \/ ir = Nest(MaxNest)
    /\ last = NoVisit(ir)
    /\ phase = "drive"
    /\ prog = <<>>
    /\ pc = [w \in Workers |-> 0]
    /\ drv = [iter |-> 1, changed |-> FALSE, work |-> Parallels(ir),
              failed |-> FALSE, input |-> ir]

\* the driver takes p from the worklist and applies the first pattern that
\* succeeds; erased operations leave the worklist, and after a rewrite any
\* of the parallels may be put (back) on it
Pop(p) ==
    /\ phase = "drive"
    /\ p \in drv.work
    /\ \E r \in {FirstSuccess(ir, p, 1)} :
          /\ ir' = r.out.ir
          /\ last' = [p |-> p, rule |-> r.rule, pre |-> ir,
                      merged |-> r.out.merged, moved |-> r.out.moved,
                      host |-> r.out.host]
          /\ \E again \in IF r.rule = "none" THEN {{}}
                          ELSE SUBSET Parallels(r.out.ir) :
                drv' = [drv EXCEPT
                          !.changed = @ \/ r.rule # "none",
                          !.work = ((@ \ {p}) \cap DOMAIN r.out.ir.ops) \cup again]
    /\ UNCHANGED <<phase, prog, pc>>

\* the worklist is empty, the iteration changed the function and the cap is
\* not reached: the next iteration starts with every parallel on the worklist
NextIteration ==
    /\ phase = "drive"
    /\ drv.work = {}
    /\ drv.changed
    /\ drv.iter < maxIterations
    /\ drv' = [drv EXCEPT !.iter = @ + 1, !.changed = FALSE,
                          !.work = Parallels(ir)]
    /\ UNCHANGED <<ir, last, phase, prog, pc>>

\* a variant of Halt that makes the pass fail when the driver stops at the
\* cap
HaltSignalsFailure ==
    /\ phase = "drive"
    /\ drv.work = {}
    /\ ~drv.changed \/ drv.iter >= maxIterations
    /\ phase' = "halted"
    /\ drv' = [drv EXCEPT !.failed = drv.changed]
    /\ UNCHANGED <<ir, last, prog, pc>>

\* line 192: the driver returns, after an iteration that changed nothing or
\* at the cap; runOnOperation drops what it returns ((void)) and never
\* signals a failure of the pass
Halt ==
    /\ phase = "drive"
    /\ drv.work = {}
    /\ ~drv.changed \/ drv.iter >= maxIterations
    /\ phase' = "halted"
    /\ drv' = [drv EXCEPT !.failed = FALSE]
    /\ UNCHANGED <<ir, last, prog, pc>>

NextDriver ==
    \/ \E p \in DOMAIN ir.ops : Pop(p)
    \/ NextIteration
    \/ Halt

SpecDriver == InitDriver /\ [][NextDriver]_vars

\* the operations that hold o, innermost first, up to the function
RECURSIVE Ancestors(_, _)
Ancestors(t, o) ==
    IF HasBlock(t, o)
    THEN LET a == ParentOp(t, o) IN {a} \cup Ancestors(t, a)
    ELSE {}

\* the operations nested in o, found going down its regions
RECURSIVE Below(_, _)
Below(t, o) ==
    LET kids == UNION {Range(t.blocks[b].ops) : b \in BlocksOf(t.ops[o])}
    IN kids \cup UNION {Below(t, k) : k \in kids}

\* the loops and conditionals around parallel q
HostsAround(t, q) ==
    {a \in Ancestors(t, q) : t.ops[a].name \in {"scf.for", "scf.if"}}

\* what the patterns use up: a merge takes a parallel away, an interchange
\* takes a parallel out of a loop or conditional, a relocation takes an
\* operation into a parallel
Measure(t) ==
    LET pars == Parallels(t)
        around == UNION {{<<a, q>> : a \in HostsAround(t, q)} : q \in pars}
        outside == UNION {{<<x, q>> : x \in (DOMAIN t.ops \ Below(t, q)) \ {q}}
                          : q \in pars}
    IN (Cardinality(pars) * 1000 + Cardinality(around)) * 1000
       + Cardinality(outside)

\* a step of the driver's loop uses up an iteration, or what the patterns
\* use up, or the worklist
DriverProgress ==
    \/ drv'.iter > drv.iter
    \/ /\ drv'.iter = drv.iter
       /\ IF ir' = ir THEN Cardinality(drv'.work) < Cardinality(drv.work)
          ELSE Measure(ir') < Measure(ir)

\* C15: the driver starts at most maxIterations (47) iterations and returns:
\* until then its worklist holds parallels of the function only, so that a
\* step can be taken, and each step uses up something that is bounded; the
\* pass does not fail, at the cap either, and the function it leaves is the
\* outcome of the last pattern applied
C15_Halts ==
    /\ [](/\ drv.iter <= maxIterations
          /\ ~drv.failed
          /\ phase = "drive" => drv.work \subseteq Parallels(ir)
          /\ phase = "halted" /\ last.p # 0 =>
                ir = FirstSuccess(last.pre, last.p, 1).out.ir)
    /\ [][phase' = "drive" => DriverProgress]_vars

\* the driver returned at the cap, after an iteration that changed the
\* function
C15_Witness ==
    /\ phase = "halted"
    /\ drv.iter = maxIterations
    /\ drv.changed
    /\ Tree(ir) # Tree(drv.input)

\* none of the three patterns succeeds on a parallel of t
NoMatch(t) ==
    \A p \in Parallels(t) :
        /\ CombineParallel(t, p).res = "failure"
        /\ ParallelForInterchange(t, p).res = "failure"
        /\ ParallelIfInterchange(t, p).res = "failure"

\* C16 as stated: in the function the driver leaves no pattern succeeds on
\* any parallel, so a second run changes nothing
C16_Original == phase = "halted" => NoMatch(ir)

\* C16: when the driver returns after an iteration that changed nothing (not
\* at the cap), no pattern succeeds on any parallel of the function it
\* leaves, so a second run changes nothing
C16_Amended == phase = "halted" /\ ~drv.changed => NoMatch(ir)

\* the driver returned after an iteration that changed nothing, having
\* rewritten the function before
C16_Witness ==
    /\ phase = "halted"
    /\ ~drv.changed
    /\ Tree(ir) # Tree(drv.input)

\* the structure below operation o without the identities of operations and
\* blocks: its name and, region by region and block by block, the structure
\* of the operations it holds
RECURSIVE Shape(_, _)
Shape(t, o) ==
    LET rs == t.ops[o].regions
    IN [name |-> t.ops[o].name,
        regions |-> [i \in 1..Len(rs) |->
                       [j \in 1..Len(rs[i]) |->
                          LET s == t.blocks[rs[i][j]].ops
                          IN [k \in 1..Len(s) |-> Shape(t, s[k])]]]]

\* the parallels of t some pattern succeeds on
Matching(t) == {p \in Parallels(t) : FirstSuccess(t, p, 1).rule # "none"}

\* the run that always visits the matching parallel created first, until no
\* pattern succeeds
RECURSIVE Reference(_)
Reference(t) ==
    LET ps == Matching(t)
    IN IF ps = {} THEN t
       ELSE LET p == CHOOSE x \in ps : \A y \in ps : x <= y
            IN CHOOSE r \in {Reference(n) : n \in {FirstSuccess(t, p, 1).out.ir}} :
                   TRUE

\* every load of t outside the parallels has a user, so that the driver's
\* removal of unused operations has nothing to take between two parallels
NoDeadLoad(t) ==
    \A o \in DOMAIN t.ops :
        t.ops[o].name = "load" /\ ~InParallel(t, o) => Users(t, o) # {}

\* C17: whatever order the driver takes the parallels in, a run that ends
\* after a sweep without change leaves the tree the reference run leaves
C17_OrderIndependent ==
    phase = "halted" /\ ~drv.changed /\ NoDeadLoad(drv.input) =>
        \A r \in {Reference(drv.input)} : Shape(ir, 1) = Shape(r, 1)

-----------------------------------------------------------------------------
(* isReadOnly on its own.  The operations classified are those of a        *)
(* function that holds one operation X: an operation without regions, or   *)
(* an operation with one region of two operations, the first of which may  *)
(* have a region with one operation.  An operation with a region carries   *)
(* HasRecursiveSideEffects; an operation that implements                   *)
(* MemoryEffectOpInterface declares a set of effects, any other declares   *)
(* none.  Operations with regions and without the trait are left out.      *)

\* the sets of effects an operation declares
EffectSets ==
    {{}, {"read"}, {"write"}, {"read", "write"}, {"allocate"}, {"free"}}

\* operations without regions: MemoryEffectOpInterface with declared effects
Plain == {Rec("op", 0, TRUE, e, FALSE, <<>>) : e \in EffectSets}

\* operations with a region: HasRecursiveSideEffects, with or without
\* MemoryEffectOpInterface
Holders ==
    {Rec("op", 0, TRUE, e, TRUE, <<>>) : e \in EffectSets}
    \cup {Rec("op", 0, FALSE, {}, TRUE, <<>>)}

\* the function func { X { A { C; yield }; B; yield }; return }: X is
\* operation 10, A is 11, B is 12, C is 111; without wide X has no region and
\* without deep A has none
ClassifyTree(x, a, b, c, wide, deep) ==
    LET at(rec, blk, regions) == [rec EXCEPT !.block = blk, !.regions = regions]
        top == (1 :> Rec("func.func", 0, FALSE, {}, FALSE, <<<<1>>>>))
               @@ (2 :> at(Leaf("func.return"), 1, <<>>))
               @@ (10 :> at(x, 1, IF wide THEN <<<<10>>>> ELSE <<>>))
        mid == IF wide
               THEN (11 :> at(a, 10, IF deep THEN <<<<11>>>> ELSE <<>>))
                    @@ (12 :> at(b, 10, <<>>))
                    @@ (19 :> at(Leaf("scf.yield"), 10, <<>>))
               ELSE <<>>
        low == IF wide /\ deep
               THEN (111 :> at(c, 11, <<>>))
                    @@ (119 :> at(Leaf("scf.yield"), 11, <<>>))
               ELSE <<>>
        topB == 1 :> [ops |-> <<10, 2>>, arg |-> FALSE, owner |-> 1]
        midB == IF wide
                THEN 10 :> [ops |-> <<11, 12, 19>>, arg |-> FALSE, owner |-> 10]
                ELSE <<>>
        lowB == IF wide /\ deep
                THEN 11 :> [ops |-> <<111, 119>>, arg |-> FALSE, owner |-> 11]
                ELSE <<>>
    IN [ops |-> top @@ mid @@ low, blocks |-> topB @@ midB @@ lowB, next |-> 200]

ClassifyInputs ==
    {ClassifyTree(x, x, x, x, FALSE, FALSE) : x \in Plain}
    \cup {ClassifyTree(q[1], q[2], q[3], q[3], TRUE, FALSE) :
             q \in Holders \X Plain \X Plain}
    \cup {ClassifyTree(q[1], q[2], q[3], q[4], TRUE, TRUE) :
             q \in Holders \X Holders \X Plain \X Plain}

InitClassify ==
    /\ ir \in ClassifyInputs
    /\ last = NoVisit(ir)
    /\ phase = "classify"
    /\ prog = <<>>
    /\ pc = [w \in Workers |-> 0]
    /\ drv = NoDriver

\* isReadOnly is asked about operation o; last.rule records the answer
Classify(o) ==
    /\ phase = "classify"
    /\ o \in DOMAIN ir.ops \ {1}
    /\ last' = [NoVisit(ir) EXCEPT
                  !.p = o,
                  !.rule = IF isReadOnly(ir, o) THEN "read-only"
                           ELSE "not read-only"]
    /\ UNCHANGED <<ir, phase, prog, pc, drv>>

NextClassify == \E o \in DOMAIN ir.ops : Classify(o)

SpecClassify == InitClassify /\ [][NextClassify]_vars

\* o and the operations nested in it declare no effect but reads
OnlyReads(t, o) ==
    \A d \in {o} \cup Below(t, o) : t.ops[d].effects \subseteq {"read"}

\* C18: isReadOnly answers true for an operation exactly when neither the
\* operation nor an operation nested in it declares a write, an allocation
\* or a free
C18_ExactlyReads ==
    last.p # 0 => (last.rule = "read-only" <=> OnlyReads(ir, last.p))

-----------------------------------------------------------------------------
\* C19: every successful application of a pattern makes the measure of the
\* function smaller (fewer parallels, or as many and fewer loops and
\* conditionals around them, or as many of both and fewer operations outside
\* them), so the patterns cannot succeed forever
C19_RulesUseUp ==
    [][last' # last /\ last'.rule # "none" => Measure(ir') < Measure(ir)]_vars

\* a pattern has succeeded on a function an earlier success had already
\* rewritten
C19_Witness ==
    /\ last.rule # "none"
    /\ Tree(last.pre) # Tree(drv.input)
    /\ Measure(ir) < Measure(last.pre)

-----------------------------------------------------------------------------
\* the patterns that succeed on parallel p of t
Succeeding(t, p) ==
    {n \in Range(Patterns) : ApplyPattern(n, t, p).res = "success"}

\* C21: in every tree the driver reaches at most one of the three patterns
\* succeeds on a parallel: CombineParallel succeeds only on a parallel that
\* is not the first operation of its block, an interchange only on one whose
\* block is the parallel and the terminator, and the two interchanges need
\* a loop and a conditional as the parent
C21_AtMostOne ==
    \A p \in Parallels(ir) :
        \A s \in {Succeeding(ir, p)} :
            /\ Cardinality(s) <= 1
            /\ "CombineParallel" \in s => p # Front(ir, BlockOf(ir, p))
            /\ s \cap {"ParallelForInterchange", "ParallelIfInterchange"} # {} =>
                  ir.blocks[BlockOf(ir, p)].ops
                      = <<p, Terminator(ir, BlockOf(ir, p))>>
            /\ "ParallelForInterchange" \in s => ir.ops[ParentOp(ir, p)].name = "scf.for"
            /\ "ParallelIfInterchange" \in s => ir.ops[ParentOp(ir, p)].name = "scf.if"

\* one interchange has rewritten the function and the other one, and only
\* it, now succeeds on the parallel that was interchanged
C21_Witness ==
    /\ last.rule = "ParallelIfInterchange"
    /\ last.p \in Parallels(ir)
    /\ Succeeding(ir, last.p) = {"ParallelForInterchange"}

-----------------------------------------------------------------------------
\* the positions in the team's program of the clones the last visit relocated
\* and of the writes of the body nextParallel had before the visit
ClonePositions == {i \in 1..Len(prog) : prog[i].op \in Range(Clones)}

BodyWrites ==
    LET body == Range(NonTerm(last.pre, RegionBlock(last.pre, last.p)))
    IN {j \in 1..Len(prog) : /\ prog[j].top \in body
                             /\ "write" \in ir.ops[prog[j].op].effects}

\* C22: after a relocation no worker has executed a write of the body of
\* nextParallel while another worker has yet to execute a relocated clone,
\* so that every worker's clone reads what the original read before the
\* region
C22_CloneReadsOriginal ==
    phase = "exec" /\ last.rule = "CombineParallel" /\ last.moved # <<>> =>
        \A i \in ClonePositions : \A j \in BodyWrites :
            \A w1, w2 \in Workers : pc[w1] >= j => pc[w2] >= i

=============================================================================
